---- MODULE Spec2Model ----
(***************************************************************************)
(* A model of the noms value-storage core:                                 *)
(*   - types/batch_store.go : BatchStore / BatchStoreAdaptor               *)
(*   - types/type.go        : Type, its constructors, Ref and Equals       *)
(*   - the value codec exercised by the encoding tests                     *)
(***************************************************************************)
EXTENDS Integers, Sequences, FiniteSets, TLC

(***************************************************************************)
(* Bounds of the model.                                                    *)
(***************************************************************************)
\* total number of BatchStore calls the clients start
MaxOps == 3
\* number of distinct chunk payloads
NumChunks == 2
\* number of Type objects and stored chunks created besides the package-level Types
MaxTypes == 3
\* number of Type objects built where equality is compared
MaxStructs == 3
\* longest field name tried
MaxNameLen == 3
\* largest number of members MakeUnionType is called with
MaxMembers == 3

Nil == "nil"

(***************************************************************************)
(* PART 1 - BatchStore (types/batch_store.go)                              *)
(***************************************************************************)
VARIABLES lbs, pc, call, ret, nOps, scheduled, durableDue, closeReturned

bsVars == <<lbs, pc, call, ret, nOps, scheduled, durableDue, closeReturned>>

\* the Type objects, the value store, the last operation's result, the
\* operation's input and the struct types patched after construction
VARIABLES heap, vs, res, input, patched, refCall

typeVars == <<heap, vs, res, input, patched, refCall>>

\* the client goroutines that share one BatchStore
Procs == {"p1", "p2"}

\* chunks.Chunk: a payload and the ref (content address) of that payload
ChunkRef(d) == <<"sha1", d>>
NewChunk(d) == [r |-> ChunkRef(d), data |-> d]
EmptyChunk == [r |-> <<"sha1", 0>>, data |-> 0]
Chunks == {NewChunk(d) : d \in 1..NumChunks}
Refs == {c.r : c \in Chunks}
\* Hints map[ref.Ref]struct{}
Hints == SUBSET Refs
\* what cs.Close() may return: nil or an I/O error
CloseErrors == {Nil, "EIO"}

(* The backing chunks.ChunkStore. It records the calls that reach it. *)
csNew == [chunks |-> <<>>, closed |-> FALSE, nGet |-> 0, nPut |-> 0,
          nClose |-> 0, err |-> Nil]
csHas(s, r) == r \in DOMAIN s.chunks
csGet(s, r) == IF csHas(s, r) THEN s.chunks[r] ELSE EmptyChunk
csGetCall(s) == [s EXCEPT !.nGet = @ + 1]
csPut(s, c) ==
  [s EXCEPT !.chunks = [h \in DOMAIN s.chunks \cup {c.r} |->
                          IF h = c.r THEN c ELSE s.chunks[h]],
            !.nPut = @ + 1]
csClose(s, e) == [s EXCEPT !.closed = TRUE, !.nClose = @ + 1, !.err = e]

(* BatchStoreAdaptor *)
NewBatchStoreAdaptor(cs) == [cs |-> cs]

\* a Get that refuses to touch a closed store
GetGuarded(l, r) ==
  IF l.cs.closed THEN [lbs |-> l, out |-> EmptyChunk]
  ELSE [lbs |-> [l EXCEPT !.cs = csGetCall(l.cs)], out |-> csGet(l.cs, r)]
\* a Get that forgets what it read
GetEmpty(l, r) == [lbs |-> [l EXCEPT !.cs = csGetCall(l.cs)], out |-> EmptyChunk]
Get(l, r) == [lbs |-> [l EXCEPT !.cs = csGetCall(l.cs)], out |-> csGet(l.cs, r)]

\* a SchedulePut that only writes chunks that come without hints
SchedulePutHinted(l, c, hints) ==
  IF hints = {} THEN [l EXCEPT !.cs = csPut(l.cs, c)] ELSE l
\* a SchedulePut whose write replaces what the other producers wrote
SchedulePutReplace(l, c, hints) ==
  [l EXCEPT !.cs = [@ EXCEPT !.chunks = [h \in {c.r} |-> c], !.nPut = @ + 1]]
\* a SchedulePut that drops the chunk
SchedulePutDrop(l, c, hints) == l
SchedulePut(l, c, hints) == [l EXCEPT !.cs = csPut(l.cs, c)]

Flush(l) == l

\* the second statement of Close, retried once when the store reports an error
CloseCsRetry(l, e) ==
  IF e = Nil THEN [lbs |-> [l EXCEPT !.cs = csClose(l.cs, e)], err |-> e]
  ELSE [lbs |-> [l EXCEPT !.cs = csClose(csClose(l.cs, e), Nil)], err |-> Nil]
\* the second statement of Close: return lbs.cs.Close()
CloseCs(l, e) ==
  LET s == csClose(l.cs, e) IN [lbs |-> [l EXCEPT !.cs = s], err |-> s.err]

NoCall == [op |-> "none", c |-> EmptyChunk, hints |-> {}, r |-> EmptyChunk.r,
           afterClose |-> FALSE, snap |-> {}, sub |-> <<>>]
NoRet == [op |-> "none", val |-> Nil, afterClose |-> FALSE]

BSInit ==
  /\ lbs = NewBatchStoreAdaptor(csNew)
  /\ pc = [p \in Procs |-> "idle"]
  /\ call = [p \in Procs |-> NoCall]
  /\ ret = [p \in Procs |-> NoRet]
  /\ nOps = 0
  /\ scheduled = {}
  /\ durableDue = {}
  /\ closeReturned = FALSE

CanCall(p) == pc[p] = "idle" /\ nOps < MaxOps

Begin(p, op, c, hints, r) ==
  /\ CanCall(p)
  /\ pc' = [pc EXCEPT ![p] = op]
  /\ call' = [call EXCEPT ![p] = [op |-> op, c |-> c, hints |-> hints, r |-> r,
                                  afterClose |-> closeReturned,
                                  snap |-> scheduled, sub |-> <<>>]]
  /\ nOps' = nOps + 1
  /\ UNCHANGED <<lbs, ret, scheduled, durableDue, closeReturned, typeVars>>

GetCall(p) == \E r \in Refs : Begin(p, "Get", EmptyChunk, {}, r)
SchedulePutCall(p) ==
  \E c \in Chunks, h \in Hints : Begin(p, "SchedulePut", c, h, c.r)
FlushCall(p) == Begin(p, "Flush", EmptyChunk, {}, EmptyChunk.r)
CloseCall(p) == Begin(p, "Close", EmptyChunk, {}, EmptyChunk.r)

GetReturn(p) ==
  /\ pc[p] = "Get"
  /\ LET g == Get(lbs, call[p].r) IN
       /\ lbs' = g.lbs
       /\ ret' = [ret EXCEPT ![p] = [op |-> "Get", val |-> g.out,
                                 afterClose |-> call[p].afterClose]]
  /\ pc' = [pc EXCEPT ![p] = "idle"]
  /\ call' = [call EXCEPT ![p] = NoCall]
  /\ UNCHANGED <<nOps, scheduled, durableDue, closeReturned, typeVars>>

SchedulePutReturn(p) ==
  /\ pc[p] = "SchedulePut"
  /\ lbs' = SchedulePut(lbs, call[p].c, call[p].hints)
  /\ ret' = [ret EXCEPT ![p] = [op |-> "SchedulePut", val |-> Nil,
                                 afterClose |-> call[p].afterClose]]
  /\ scheduled' = scheduled \cup {call[p].c}
  /\ pc' = [pc EXCEPT ![p] = "idle"]
  /\ call' = [call EXCEPT ![p] = NoCall]
  /\ UNCHANGED <<nOps, durableDue, closeReturned, typeVars>>

FlushReturn(p) ==
  /\ pc[p] = "Flush"
  /\ lbs' = Flush(lbs)
  /\ ret' = [ret EXCEPT ![p] = [op |-> "Flush", val |-> Nil,
                                 afterClose |-> call[p].afterClose]]
  /\ durableDue' = durableDue \cup call[p].snap
  /\ pc' = [pc EXCEPT ![p] = "idle"]
  /\ call' = [call EXCEPT ![p] = NoCall]
  /\ UNCHANGED <<nOps, scheduled, closeReturned, typeVars>>

\* Close, first statement: lbs.Flush()
CloseFlush(p) ==
  /\ pc[p] = "Close"
  /\ lbs' = Flush(lbs)
  /\ call' = [call EXCEPT ![p].sub = Append(@, "Flush")]
  /\ pc' = [pc EXCEPT ![p] = "CloseCs"]
  /\ UNCHANGED <<ret, nOps, scheduled, durableDue, closeReturned, typeVars>>

\* Close, second statement: return lbs.cs.Close()
CloseReturn(p) ==
  /\ pc[p] = "CloseCs"
  /\ \E e \in CloseErrors :
       LET k == CloseCs(lbs, e) IN
         /\ lbs' = k.lbs
         /\ ret' = [ret EXCEPT ![p] = [op |-> "Close", val |-> k.err,
                                 afterClose |-> call[p].afterClose]]
  /\ call' = [call EXCEPT ![p] = NoCall]
  /\ durableDue' = durableDue \cup call[p].snap
  /\ closeReturned' = TRUE
  /\ pc' = [pc EXCEPT ![p] = "idle"]
  /\ UNCHANGED <<nOps, scheduled, typeVars>>

BSNext ==
  \E p \in Procs :
    \/ GetCall(p)
    \/ SchedulePutCall(p)
    \/ FlushCall(p)
    \/ CloseCall(p)
    \/ GetReturn(p)
    \/ SchedulePutReturn(p)
    \/ FlushReturn(p)
    \/ CloseFlush(p)
    \/ CloseReturn(p)



(***************************************************************************)
(* PART 2 - Type (types/type.go)                                           *)
(***************************************************************************)
\* characters of field names, with their byte values
Alphabet == {" ", "0", "A", "_", "a"}
Code == [c \in Alphabet \cup {"b", "s", "x"} |->
           CASE c = " " -> 32 [] c = "0" -> 48 [] c = "A" -> 65
             [] c = "_" -> 95 [] c = "a" -> 97
             [] c = "b" -> 98 [] c = "s" -> 115 [] c = "x" -> 120]
IsLetter(c) == Code[c] \in 97..122 \/ Code[c] \in 65..90
IsDigit(c) == Code[c] \in 48..57

\* `[a-zA-Z0-9_]*$` from position i on
RECURSIVE reTail(_, _)
reTail(name, i) ==
  IF i > Len(name) THEN TRUE
  ELSE (IsLetter(name[i]) \/ IsDigit(name[i]) \/ name[i] = "_") /\ reTail(name, i + 1)
\* the pattern without its closing anchor: `^[a-zA-Z][a-zA-Z0-9_]*`
fieldNameReUnanchored(name) == Len(name) >= 1 /\ IsLetter(name[1])
\* fieldNameRe.MatchString(name), fieldNameRe = `^[a-zA-Z][a-zA-Z0-9_]*$`
fieldNameRe(name) == Len(name) >= 1 /\ IsLetter(name[1]) /\ reTail(name, 2)
\* verifyFieldName: d.Exp.True(...) panics when this is FALSE
verifyFieldName(name) == fieldNameRe(name)

\* NomsKind
PrimitiveKinds == {"Bool", "Number", "String", "Blob", "Value", "Type"}

(* TypeDesc *)
PrimitiveDesc(k) == [tag |-> "Primitive", kind |-> k]
CompoundDesc(k, elemTypes) == [tag |-> "Compound", kind |-> k, ElemTypes |-> elemTypes]
StructDesc(name, fields) == [tag |-> "Struct", kind |-> "Struct", Name |-> name, Fields |-> fields]

\* the zero ref.Ref
EmptyRef == <<"sha1", <<>>>>

(* The heap of Type objects; a *Type is an index into it. *)
\* buildType: &Type{Desc: desc, ref: &ref.Ref{}}
buildType(h, desc) ==
  [h |-> Append(h, [Desc |-> desc, ref |-> EmptyRef]), t |-> Len(h) + 1]
makePrimitiveType(h, k) == buildType(h, PrimitiveDesc(k))

\* a nil *Type
NilType == 0
\* the package-level variables, in the order the model allocates them
typeForType == 1
NumberType == 2
BoolType == 3
StringType == 4
BlobType == 5
TypeType == 6
ValueType == 7
GlobalKinds == <<"Type", "Number", "Bool", "String", "Blob", "Type", "Value">>
RECURSIVE initGlobals(_, _)
initGlobals(h, i) ==
  IF i > Len(GlobalKinds) THEN h
  ELSE initGlobals(makePrimitiveType(h, GlobalKinds[i]).h, i + 1)
HeapInit == initGlobals(<<>>, 1)
NumGlobals == Len(GlobalKinds)

Kind(h, t) == h[t].Desc.kind
Type(h, t) == typeForType

MakePrimitiveType(k) ==
  CASE k = "Bool" -> BoolType
    [] k = "Number" -> NumberType
    [] k = "String" -> StringType
    [] k = "Blob" -> BlobType
    [] k = "Value" -> ValueType
    [] k = "Type" -> TypeType

\* the position, in the order the map is ranged over, of the first name that
\* verifyFieldName rejects; 0 when it accepts them all
RECURSIVE firstInvalid(_, _)
firstInvalid(order, i) ==
  IF i > Len(order) THEN 0
  ELSE IF ~verifyFieldName(order[i]) THEN i
  ELSE firstInvalid(order, i + 1)
\* MakeStructType; order is the order in which `range fields` visits the names
MakeStructType(h, name, fields, order) ==
  LET bad == firstInvalid(order, 1) IN
    IF bad # 0
    THEN [h |-> h, t |-> NilType, err |-> <<"Invalid struct field name", order[bad]>>]
    ELSE LET b == buildType(h, StructDesc(name, fields)) IN
           [h |-> b.h, t |-> b.t, err |-> <<>>]
MakeListType(h, elemType) == buildType(h, CompoundDesc("List", <<elemType>>))
MakeSetType(h, elemType) == buildType(h, CompoundDesc("Set", <<elemType>>))
MakeMapType(h, keyType, valType) == buildType(h, CompoundDesc("Map", <<keyType, valType>>))
MakeRefType(h, elemType) == buildType(h, CompoundDesc("Ref", <<elemType>>))

\* recType.Desc.(StructDesc).Fields[fn] = u
SetField(h, t, fn, u) == [h EXCEPT ![t].Desc.Fields[fn] = u]

(* The encoding of a Type (value_encoder: writeType, writeStructType). *)
U8(k) == <<"uint8", k>>
U32(n) == <<"uint32", n>>
Str(x) == <<"string", x>>

RECURSIVE StrLess(_, _)
StrLess(a, b) ==
  IF b = <<>> THEN FALSE
  ELSE IF a = <<>> THEN TRUE
  ELSE IF Code[Head(a)] # Code[Head(b)] THEN Code[Head(a)] < Code[Head(b)]
  ELSE StrLess(Tail(a), Tail(b))
\* the field names in descending order
RECURSIVE SortNamesDesc(_)
SortNamesDesc(S) ==
  IF S = {} THEN <<>>
  ELSE LET m == CHOOSE x \in S : \A y \in S : x = y \/ StrLess(y, x) IN
         <<m>> \o SortNamesDesc(S \ {m})
\* sort.Strings over the field names
RECURSIVE SortNames(_)
SortNames(S) ==
  IF S = {} THEN <<>>
  ELSE LET m == CHOOSE x \in S : \A y \in S : x = y \/ StrLess(x, y) IN
         <<m>> \o SortNames(S \ {m})

\* 1-based position of x in seq, 0 when absent
IndexOf(seq, x) ==
  IF \E i \in 1..Len(seq) : seq[i] = x
  THEN CHOOSE i \in 1..Len(seq) : seq[i] = x /\ \A j \in 1..(i - 1) : seq[j] # x
  ELSE 0

RECURSIVE writeType(_, _, _), writeTypes(_, _, _, _), writeFields(_, _, _, _, _)
RECURSIVE writeStructType(_, _, _)
writeTypes(h, ts, k, parents) ==
  IF k > Len(ts) THEN <<>>
  ELSE writeType(h, ts[k], parents) \o writeTypes(h, ts, k + 1, parents)
writeFields(h, fields, names, k, parents) ==
  IF k > Len(names) THEN <<>>
  ELSE <<Str(names[k])>> \o writeType(h, fields[names[k]], parents)
         \o writeFields(h, fields, names, k + 1, parents)
writeStructType(h, t, parents) ==
  LET i == IndexOf(parents, t) IN
    IF i > 0 THEN <<U8("Cycle"), U32(Len(parents) - i)>>
    ELSE LET d == h[t].Desc
             names == SortNames(DOMAIN d.Fields) IN
           <<U8("Struct"), Str(d.Name), U32(Len(names))>>
             \o writeFields(h, d.Fields, names, 1, Append(parents, t))
writeType(h, t, parents) ==
  LET d == h[t].Desc IN
    CASE d.tag = "Primitive" -> <<U8(d.kind)>>
      [] d.tag = "Compound" /\ d.kind = "Union" ->
           <<U8(d.kind), U32(Len(d.ElemTypes))>> \o writeTypes(h, d.ElemTypes, 1, parents)
      [] d.tag = "Compound" /\ d.kind # "Union" ->
           <<U8(d.kind)>> \o writeTypes(h, d.ElemTypes, 1, parents)
      [] d.tag = "Struct" -> writeStructType(h, t, parents)

\* EncodeValue of a Type: the Type kind tag, then the type
EncodeType(h, t) == <<U8("Type")>> \o writeType(h, t, <<>>)

(* The decoding of a Type (value_decoder: readType, readStructType). *)
EmptyFields == [n \in {} |-> NilType]
Extend(f, k, v) == [n \in DOMAIN f \cup {k} |-> IF n = k THEN v ELSE f[n]]

RECURSIVE readType(_, _, _, _), readTypes(_, _, _, _, _), readFields(_, _, _, _, _, _)
readTypes(toks, i, h, parents, n) ==
  IF n = 0 THEN [h |-> h, ts |-> <<>>, i |-> i]
  ELSE LET e == readType(toks, i, h, parents)
           r == readTypes(toks, e.i, e.h, parents, n - 1) IN
         [h |-> r.h, ts |-> <<e.t>> \o r.ts, i |-> r.i]
readFields(toks, i, h, parents, n, fields) ==
  IF n = 0 THEN [h |-> h, fields |-> fields, i |-> i]
  ELSE LET fieldName == toks[i][2]
           e == readType(toks, i + 1, h, parents) IN
         readFields(toks, e.i, e.h, parents, n - 1, Extend(fields, fieldName, e.t))
readStructType(toks, i, h, parents) ==
  LET name == toks[i][2]
      count == toks[i + 1][2]
      st == buildType(h, StructDesc(name, EmptyFields))
      r == readFields(toks, i + 2, st.h, Append(parents, st.t), count, EmptyFields) IN
    [h |-> [r.h EXCEPT ![st.t].Desc.Fields = r.fields], t |-> st.t, i |-> r.i]
readType(toks, i, h, parents) ==
  LET k == toks[i][2] IN
    CASE k \in PrimitiveKinds -> [h |-> h, t |-> MakePrimitiveType(k), i |-> i + 1]
      [] k \in {"List", "Set", "Ref"} ->
           LET r == readTypes(toks, i + 1, h, parents, 1)
               b == buildType(r.h, CompoundDesc(k, r.ts)) IN
             [h |-> b.h, t |-> b.t, i |-> r.i]
      [] k = "Map" ->
           LET r == readTypes(toks, i + 1, h, parents, 2)
               b == buildType(r.h, CompoundDesc(k, r.ts)) IN
             [h |-> b.h, t |-> b.t, i |-> r.i]
      [] k = "Union" ->
           LET r == readTypes(toks, i + 2, h, parents, toks[i + 1][2])
               b == buildType(r.h, CompoundDesc(k, r.ts)) IN
             [h |-> b.h, t |-> b.t, i |-> r.i]
      [] k = "Struct" -> readStructType(toks, i + 1, h, parents)
      [] k = "Cycle" ->
           [h |-> h, t |-> parents[Len(parents) - toks[i + 1][2]], i |-> i + 2]
\* DecodeChunk of a chunk that holds a Type
DecodeType(h, toks) == readType(toks, 2, h, <<>>)

(* Ref and Equals *)
\* getRef: the hash of the value's encoding
getRef(h, t) == <<"sha1", EncodeType(h, t)>>
\* EnsureRef(t.ref, t): compute on first use, then keep
EnsureRef(h, t) ==
  IF h[t].ref = EmptyRef
  THEN [h |-> [h EXCEPT ![t].ref = getRef(h, t)], r |-> getRef(h, t)]
  ELSE [h |-> h, r |-> h[t].ref]
Ref(h, t) == EnsureRef(h, t)
\* Equals that compares the pointers
EqualsIdentity(h, t, other) == [h |-> h, res |-> other # NilType /\ t = other]
\* other != nil && t.Ref() == other.Ref()
Equals(h, t, other) ==
  IF other = NilType THEN [h |-> h, res |-> FALSE]
  ELSE LET a == Ref(h, t)
           b == Ref(a.h, other) IN
         [h |-> b.h, res |-> a.r = b.r]

(* MakeUnionType and IsOrdered *)
\* ref.Ref.Less compares the digests byte by byte; the digests of the
\* encodings of the primitive types, by kind, in ascending order
DigestOrder == <<"String", "Type", "Number", "Blob", "Bool", "Value">>
Less(r1, r2) == IndexOf(DigestOrder, r1[2][2][2]) < IndexOf(DigestOrder, r2[2][2][2])
\* unionTypes, sort.Sort: the orders sort.Sort may leave the slice in, any
\* permutation of it in which no member's Ref is Less than its predecessor's
unionTypes(h, elemType) ==
  LET n == Len(elemType) IN
    {[i \in 1..n |-> elemType[f[i]]] :
       f \in {g \in [1..n -> 1..n] :
               /\ \A i, j \in 1..n : i # j => g[i] # g[j]
               /\ \A i \in 1..(n - 1) :
                    ~Less(getRef(h, elemType[g[i + 1]]), getRef(h, elemType[g[i]]))}}
\* MakeUnionType; sorted is the slice as sort.Sort left it. Less takes the
\* Ref() of the members it compares: of all of them when there are two or more
MakeUnionType(h, elemType, sorted) ==
  LET compared == IF Len(elemType) >= 2
                  THEN {elemType[i] : i \in 1..Len(elemType)} ELSE {}
      h1 == [x \in 1..Len(h) |-> IF x \in compared THEN Ref(h, x).h[x] ELSE h[x]] IN
    buildType(h1, CompoundDesc("Union", sorted))

\* IsOrdered without the Ref kind
IsOrderedNoRef(h, t) == Kind(h, t) \in {"Number", "String"}
IsOrdered(h, t) == Kind(h, t) \in {"Number", "String", "Ref"}

(* ValueStore: WriteValue / ReadValue of Types *)
WriteValue(h, store, t) ==
  LET c == EncodeType(h, t)
      r == <<"sha1", c>> IN
    [vs |-> [x \in DOMAIN store \cup {r} |-> IF x = r THEN c ELSE store[x]], r |-> r]
ReadValue(h, store, r) == DecodeType(h, store[r])

(* Reachability in the heap *)
Children(h, x) ==
  LET d == h[x].Desc IN
    CASE d.tag = "Primitive" -> {}
      [] d.tag = "Compound" -> {d.ElemTypes[i] : i \in 1..Len(d.ElemTypes)}
      [] d.tag = "Struct" -> {d.Fields[n] : n \in DOMAIN d.Fields}
RECURSIVE ReachFrom(_, _)
ReachFrom(h, S) ==
  LET N == S \cup UNION {Children(h, x) : x \in S} IN
    IF N = S THEN S ELSE ReachFrom(h, N)

(* The state machine of the type system *)
EmptyStore == [x \in {} |-> <<>>]
NoRes == [op |-> "none", t |-> NilType, u |-> NilType, val |-> <<>>]

\* no goroutine is inside Ref()
NoRefCall == [p \in Procs |-> [pc |-> "idle", t |-> NilType, r |-> EmptyRef, n |-> 0]]

TypeInit ==
  /\ heap = HeapInit
  /\ refCall = NoRefCall
  /\ vs = EmptyStore
  /\ res = NoRes
  /\ input = <<>>
  /\ patched = {}

UserTypes(h) == (NumGlobals + 1)..Len(h)
\* the element and field types the constructors are called with: String, or
\* the type built last
ElemMenu(h) == {StringType} \cup (UserTypes(h) \cap {Len(h)})
\* room for n more Type objects or chunks
Room(h, store, n) == (Len(h) - NumGlobals) + Cardinality(DOMAIN store) + n <= MaxTypes
StructNames == {<<"S">>, <<"T">>}
\* the field maps the type state machine builds structs from
FieldMaps(h, name) ==
  {[n \in {<<"a">>} |-> e] : e \in ElemMenu(h)}
    \cup {[n \in {<<"a">>, <<"A">>} |-> IF n = <<"a">> THEN e ELSE BoolType] :
            e \in IF name = <<"S">> THEN ElemMenu(h) ELSE {}}
\* the orders in which a map over the names S may be ranged over
Orders(S) ==
  {o \in [1..Cardinality(S) -> S] : \A i, j \in 1..Cardinality(S) : i # j => o[i] # o[j]}

Built(b, op) ==
  /\ heap' = b.h
  /\ res' = [op |-> op, t |-> b.t, u |-> NilType, val |-> <<>>]
  /\ UNCHANGED <<vs, input, patched, refCall, bsVars>>

TMakeSetType ==
  \E e \in ElemMenu(heap) : Room(heap, vs, 1) /\ Built(MakeSetType(heap, e), "MakeSetType")
TMakeMapType ==
  \E v \in ElemMenu(heap) :
    Room(heap, vs, 1) /\ Built(MakeMapType(heap, StringType, v), "MakeMapType")
TMakeStructType ==
  \E name \in StructNames : \E f \in FieldMaps(heap, name) : \E o \in Orders(DOMAIN f) :
    Room(heap, vs, 1) /\ Built(MakeStructType(heap, name, f, o), "MakeStructType")

\* the tests' way to build a recursive type: a field of a struct type t is set,
\* once, after construction, to t itself or to a type built over t, before a
\* Ref() of a type that reaches t is taken
TSetField ==
  \E t \in UserTypes(heap), u \in UserTypes(heap) :
    /\ heap[t].Desc.tag = "Struct"
    /\ t \notin patched
    /\ t \in ReachFrom(heap, {u})
    /\ \A x \in 1..Len(heap) : heap[x].ref # EmptyRef => t \notin ReachFrom(heap, {x})
    /\ \E fn \in DOMAIN heap[t].Desc.Fields :
         /\ heap[t].Desc.Fields[fn] # u
         /\ heap' = SetField(heap, t, fn, u)
         /\ res' = [op |-> "SetField", t |-> t, u |-> NilType, val |-> <<>>]
    /\ patched' = patched \cup {t}
    /\ UNCHANGED <<vs, input, refCall, bsVars>>

TWriteValue ==
  \E t \in UserTypes(heap) :
    LET w == WriteValue(heap, vs, t) IN
      /\ w.r \in DOMAIN vs \/ Room(heap, vs, 1)
      /\ vs' = w.vs
      /\ res' = [op |-> "WriteValue", t |-> t, u |-> NilType, val |-> w.r]
      /\ UNCHANGED <<heap, input, patched, refCall, bsVars>>

TReadValue ==
  \E r \in DOMAIN vs :
    LET d == ReadValue(heap, vs, r) IN
      /\ Room(heap, vs, Len(d.h) - Len(heap))
      /\ heap' = d.h
      /\ res' = [op |-> "ReadValue", t |-> d.t, u |-> NilType, val |-> r]
      /\ UNCHANGED <<vs, input, patched, refCall, bsVars>>

TypeNext ==
  \/ TMakeSetType
  \/ TMakeMapType
  \/ TMakeStructType
  \/ TSetField
  \/ TWriteValue
  \/ TReadValue

(* Types built and compared *)
QMakeListType ==
  Len(heap) - NumGlobals < MaxStructs /\ Built(MakeListType(heap, StringType), "MakeListType")
QMakeStructType ==
  \E name \in StructNames, e \in {StringType} \cup UserTypes(heap) :
    Len(heap) - NumGlobals < MaxStructs /\ Built(MakeStructType(heap, name, [n \in {<<"a">>} |-> e], <<<<"a">>>>),
                         "MakeStructType")
QEquals ==
  \E t \in UserTypes(heap) \cup {Type(heap, BoolType)},
     u \in UserTypes(heap) \cup {TypeType, NilType} :
    LET e == Equals(heap, t, u) IN
      /\ t # u
      /\ heap' = e.h
      /\ res' = [op |-> "Equals", t |-> t, u |-> u, val |-> e.res]
      /\ UNCHANGED <<vs, input, patched, refCall, bsVars>>
EqNext ==
  \/ QMakeListType
  \/ QMakeStructType
  \/ TSetField
  \/ QEquals

(* One Type of any kind built, and asked whether it is ordered *)
UMakeUnionType ==
  /\ Len(heap) = NumGlobals
  /\ \E elemType \in UNION {[1..n -> {NumberType, BoolType, StringType, TypeType, typeForType}] :
                              n \in 0..MaxMembers} :
       \E sorted \in unionTypes(heap, elemType) :
         LET m == MakeUnionType(heap, elemType, sorted) IN
           /\ heap' = m.h
           /\ res' = [op |-> "MakeUnionType", t |-> m.t, u |-> NilType, val |-> elemType]
  /\ UNCHANGED <<vs, input, patched, refCall, bsVars>>
UMakeType ==
  /\ Len(heap) = NumGlobals
  /\ \E e \in {StringType, BoolType, ValueType} :
       \E b \in {MakeListType(heap, e), MakeSetType(heap, e), MakeRefType(heap, e),
                  MakeMapType(heap, StringType, e),
                  MakeStructType(heap, <<"S">>, [n \in {<<"a">>} |-> e], <<<<"a">>>>)} :
         Built(b, "Make")
UIsOrdered ==
  \E t \in 1..Len(heap) :
    /\ res' = [op |-> "IsOrdered", t |-> t, u |-> NilType, val |-> IsOrdered(heap, t)]
    /\ UNCHANGED <<heap, vs, input, patched, refCall, bsVars>>
KindNext ==
  \/ UMakeUnionType
  \/ UMakeType
  \/ UIsOrdered

(* Ref() called by goroutines that share the Types. EnsureRef(t.ref, t)    *)
(* takes no lock and Type holds none, so the read of *r, the store of the  *)
(* 20-byte digest and the load of the result interleave between callers,   *)
(* and the store is not one memory operation                               *)
MaxCalls == 2
\* the cell r after the first word of the digest x has been stored over it
Torn(x, r) == <<"sha1", SubSeq(x[2], 1, 1) \o SubSeq(r[2], 2, Len(r[2]))>>
\* func (t *Type) Ref(): the call
RefCall(p) ==
  /\ refCall[p].pc = "idle"
  /\ refCall[p].n < MaxCalls
  /\ \E t \in {BoolType} \cup UserTypes(heap) :
       refCall' = [refCall EXCEPT ![p] = [pc |-> "IsEmpty", t |-> t, r |-> EmptyRef, n |-> @.n]]
  /\ UNCHANGED <<heap, vs, res, input, patched, bsVars>>
\* if r.IsEmpty() { ... getRef(v) }
RefIsEmpty(p) ==
  /\ refCall[p].pc = "IsEmpty"
  /\ refCall' = [refCall EXCEPT ![p] =
                   IF heap[refCall[p].t].ref = EmptyRef
                   THEN [@ EXCEPT !.pc = "store", !.r = getRef(heap, refCall[p].t)]
                   ELSE [@ EXCEPT !.pc = "return"]]
  /\ UNCHANGED <<heap, vs, res, input, patched, bsVars>>
\* *r = ...: the first word
RefStore(p) ==
  /\ refCall[p].pc = "store"
  /\ heap' = [heap EXCEPT ![refCall[p].t].ref = Torn(refCall[p].r, @)]
  /\ refCall' = [refCall EXCEPT ![p].pc = "storeRest"]
  /\ UNCHANGED <<vs, res, input, patched, bsVars>>
\* *r = ...: the remaining words
RefStoreRest(p) ==
  /\ refCall[p].pc = "storeRest"
  /\ heap' = [heap EXCEPT ![refCall[p].t].ref = refCall[p].r]
  /\ refCall' = [refCall EXCEPT ![p].pc = "return"]
  /\ UNCHANGED <<vs, res, input, patched, bsVars>>
\* return *r
RefReturn(p) ==
  /\ refCall[p].pc = "return"
  /\ refCall' = [refCall EXCEPT ![p] = [@ EXCEPT !.pc = "idle", !.r = heap[refCall[p].t].ref, !.n = @ + 1]]
  /\ UNCHANGED <<heap, vs, res, input, patched, bsVars>>
RefNext ==
  \/ UMakeType
  \/ \E p \in Procs : RefCall(p)
  \/ \E p \in Procs : RefIsEmpty(p)
  \/ \E p \in Procs : RefStore(p)
  \/ \E p \in Procs : RefStoreRest(p)
  \/ \E p \in Procs : RefReturn(p)

(* MakeStructType over every field name up to MaxNameLen *)
Names == UNION {[1..k -> Alphabet] : k \in 0..MaxNameLen}
\* a map of one field name, or of two, one of at most one character, visited
\* in either order
NameInit ==
  /\ heap = HeapInit
  /\ refCall = NoRefCall
  /\ vs = EmptyStore
  /\ res = NoRes
  /\ patched = {}
  /\ input \in {i \in Names \X Names : Len(i[1]) <= 1 \/ Len(i[2]) <= 1}
\* the names of the input; the input lists them in the order they are visited
InputNames == {input[1], input[2]}
InputOrder == IF input[1] = input[2] THEN <<input[1]>> ELSE input
NMakeStructType ==
  /\ res.op = "none"
  /\ LET m == MakeStructType(heap, <<"S">>, [n \in InputNames |-> StringType], InputOrder) IN
       /\ heap' = m.h
       /\ res' = [op |-> "MakeStructType", t |-> m.t, u |-> NilType, val |-> m.err]
  /\ UNCHANGED <<vs, input, patched, refCall, bsVars>>
NameNext == NMakeStructType

(***************************************************************************)
(* PART 3 - the value codec as the encoding tests drive it                 *)
(***************************************************************************)
MaxNum == 1
MaxStrLen == 2
MaxListLen == 2
MaxTuples == 2

(* TestWriter: the stream is the array a; a raw boolean or string is held  *)
(* with its typeof, a tagged number as {type, value}                       *)
write(a, v) == Append(a, v)
writeUint8(a, v) == write(a, <<"uint8", v>>)
writeUint32(a, v) == write(a, <<"uint32", v>>)
writeUint64(a, v) == write(a, <<"uint64", v>>)
\* a float64 written without its sign
writeFloat64Abs(a, v) == write(a, <<"float64", [neg |-> FALSE, mag |-> v.mag]>>)
writeFloat64(a, v) == write(a, <<"float64", v>>)
writeBool(a, v) == write(a, <<"boolean", v>>)
writeString(a, v) == write(a, <<"string", v>>)
\* Hash.toString and new Hash(s)
hashToString(h) == <<"sha1-", h[2]>>
newHash(str) == <<"sha1", str[2]>>
writeHash(a, h) == writeString(a, hashToString(h))

(* TestReader: the array a, the index i, and ok, which an invariant() that *)
(* fails sets to FALSE                                                     *)
NewTestReader(a) == [a |-> a, i |-> 1, ok |-> TRUE]
atEnd(r) == r.i = Len(r.a) + 1
read(r, type) ==
  IF atEnd(r) THEN [val |-> <<>>, r |-> [r EXCEPT !.ok = FALSE]]
  ELSE [val |-> r.a[r.i][2],
        r |-> [r EXCEPT !.i = @ + 1, !.ok = @ /\ r.a[r.i][1] = type]]
readUint8(r) == read(r, "uint8")
readUint32(r) == read(r, "uint32")
readUint64(r) == read(r, "uint64")
readFloat64(r) == read(r, "float64")
readBool(r) == read(r, "boolean")
readString(r) == read(r, "string")
readHash(r) == LET x == readString(r) IN [val |-> newHash(x.val), r |-> x.r]

(* Types of values (type.js); the types of the values encoded here are     *)
(* trees, so no struct type is met again below itself                      *)
makeType(kind, name, elemTypes, fields) ==
  [kind |-> kind, name |-> name, elemTypes |-> elemTypes, fields |-> fields]
primitiveType(kind) == makeType(kind, <<>>, <<>>, EmptyFields)
makeListType(elemType) == makeType("List", <<>>, <<elemType>>, EmptyFields)
makeRefType(elemType) == makeType("Ref", <<>>, <<elemType>>, EmptyFields)
makeUnionType(types) == makeType("Union", <<>>, types, EmptyFields)
makeStructType(name, fields) == makeType("Struct", name, <<>>, fields)

(* Values *)
BoolValue(b) == [k |-> "Bool", v |-> b]
NumberValue(neg, mag) == [k |-> "Number", v |-> [neg |-> neg, mag |-> mag]]
StringValue(str) == [k |-> "String", v |-> str]
getTypeOfValue(v) ==
  IF v.k \in {"Bool", "Number", "String"} THEN primitiveType(v.k) ELSE v.type
\* newStruct(name, data)
newStruct(name, data) ==
  [k |-> "Struct",
   type |-> makeStructType(name, [n \in DOMAIN data |-> getTypeOfValue(data[n])]),
   v |-> data]
\* List.fromSequence(newListLeafSequence(null, items)); the element type of
\* an empty list is the empty union
newListLeaf(items) ==
  [k |-> "List",
   type |-> makeListType(IF items = <<>> THEN makeUnionType(<<>>)
                         ELSE getTypeOfValue(items[1])),
   meta |-> FALSE,
   v |-> items]

(* ValueEncoder *)
RECURSIVE encWriteType(_, _), encWriteTypes(_, _, _), encWriteFields(_, _, _, _)
encWriteTypes(w, ts, i) ==
  IF i > Len(ts) THEN w ELSE encWriteTypes(encWriteType(w, ts[i]), ts, i + 1)
encWriteFields(w, fields, names, i) ==
  IF i > Len(names) THEN w
  ELSE encWriteFields(encWriteType(writeString(w, names[i]), fields[names[i]]),
                      fields, names, i + 1)
encWriteType(w, t) ==
  CASE t.kind = "Struct" ->
         LET names == SortNames(DOMAIN t.fields) IN
           encWriteFields(writeUint32(writeString(writeUint8(w, t.kind), t.name),
                                      Len(names)),
                          t.fields, names, 1)
    [] t.kind = "Union" ->
         encWriteTypes(writeUint32(writeUint8(w, t.kind), Len(t.elemTypes)), t.elemTypes, 1)
    [] OTHER -> encWriteTypes(writeUint8(w, t.kind), t.elemTypes, 1)

RECURSIVE writeValue(_, _), writeValues(_, _, _), writeMetaTuples(_, _, _)
RECURSIVE writeFieldValues(_, _, _, _)
writeValues(w, items, i) ==
  IF i > Len(items) THEN w ELSE writeValues(writeValue(w, items[i]), items, i + 1)
writeMetaTuples(w, tuples, i) ==
  IF i > Len(tuples) THEN w
  ELSE writeMetaTuples(
         writeUint64(writeValue(writeValue(w, tuples[i].ref), tuples[i].value),
                     tuples[i].numLeaves),
         tuples, i + 1)
writeFieldValues(w, data, names, i) ==
  IF i > Len(names) THEN w
  ELSE writeFieldValues(writeValue(w, data[names[i]]), data, names, i + 1)
writeValue(w, v) ==
  LET w1 == encWriteType(w, getTypeOfValue(v)) IN
    CASE v.k = "Bool" -> writeBool(w1, v.v)
      [] v.k = "Number" -> writeFloat64(w1, v.v)
      [] v.k = "String" -> writeString(w1, v.v)
      [] v.k = "Ref" -> writeUint64(writeHash(w1, v.hash), v.height)
      [] v.k = "List" /\ ~v.meta ->
           writeValues(writeUint32(writeBool(w1, FALSE), Len(v.v)), v.v, 1)
      [] v.k = "List" /\ v.meta ->
           writeMetaTuples(writeUint32(writeBool(w1, TRUE), Len(v.v)), v.v, 1)
      [] v.k = "Struct" -> writeFieldValues(w1, v.v, SortNames(DOMAIN v.v), 1)
\* enc.writeValue(v) on a new TestWriter; w.toArray()
encodeValue(v) == writeValue(<<>>, v)

\* the hash of a value: the digest of its encoding
getHash(v) == <<"sha1", encodeValue(v)>>
\* new Ref(v) of a value without chunked children
newRef(v) ==
  [k |-> "Ref", type |-> makeRefType(getTypeOfValue(v)), hash |-> getHash(v), height |-> 1]
\* constructRef(type, hash, height)
constructRef(type, hash, height) ==
  [k |-> "Ref", type |-> type, hash |-> hash, height |-> height]
\* new MetaTuple(ref, value, numLeaves, null)
MetaTuple(ref, value, numLeaves) ==
  [ref |-> ref, value |-> NumberValue(FALSE, value), numLeaves |-> numLeaves]
\* List.fromSequence(newListMetaSequence(null, tuples)): a list of what the
\* tuples' refs point at
newListMeta(tuples) ==
  [k |-> "List", type |-> tuples[1].ref.type.elemTypes[1], meta |-> TRUE, v |-> tuples]

(* ValueDecoder *)
RECURSIVE decReadType(_), decReadTypes(_, _), decReadFields(_, _, _)
decReadTypes(r, n) ==
  IF n = 0 THEN [val |-> <<>>, r |-> r]
  ELSE LET e == decReadType(r)
           rest == decReadTypes(e.r, n - 1) IN
         [val |-> <<e.val>> \o rest.val, r |-> rest.r]
decReadFields(r, n, fields) ==
  IF n = 0 THEN [val |-> fields, r |-> r]
  ELSE LET fieldName == readString(r)
           e == decReadType(fieldName.r) IN
         decReadFields(e.r, n - 1, Extend(fields, fieldName.val, e.val))
decReadType(r) ==
  LET k == readUint8(r) IN
    CASE k.val \in {"List", "Set", "Ref"} ->
           LET e == decReadTypes(k.r, 1) IN
             [val |-> makeType(k.val, <<>>, e.val, EmptyFields), r |-> e.r]
      [] k.val = "Map" ->
           LET e == decReadTypes(k.r, 2) IN
             [val |-> makeType(k.val, <<>>, e.val, EmptyFields), r |-> e.r]
      [] k.val = "Union" ->
           LET n == readUint32(k.r)
               e == decReadTypes(n.r, n.val) IN
             [val |-> makeUnionType(e.val), r |-> e.r]
      [] k.val = "Struct" ->
           LET name == readString(k.r)
               n == readUint32(name.r)
               f == decReadFields(n.r, n.val, EmptyFields) IN
             [val |-> makeStructType(name.val, f.val), r |-> f.r]
      [] OTHER -> [val |-> primitiveType(k.val), r |-> k.r]

RECURSIVE readValue(_), readValues(_, _), readMetaTuples(_, _)
RECURSIVE readFieldValues(_, _, _, _)
readValues(r, n) ==
  IF n = 0 THEN [val |-> <<>>, r |-> r]
  ELSE LET e == readValue(r)
           rest == readValues(e.r, n - 1) IN
         [val |-> <<e.val>> \o rest.val, r |-> rest.r]
readMetaTuples(r, n) ==
  IF n = 0 THEN [val |-> <<>>, r |-> r]
  ELSE LET ref == readValue(r)
           value == readValue(ref.r)
           numLeaves == readUint64(value.r)
           rest == readMetaTuples(numLeaves.r, n - 1) IN
         [val |-> <<[ref |-> ref.val, value |-> value.val, numLeaves |-> numLeaves.val]>>
                    \o rest.val,
          r |-> rest.r]
readFieldValues(r, names, i, data) ==
  IF i > Len(names) THEN [val |-> data, r |-> r]
  ELSE LET e == readValue(r) IN
         readFieldValues(e.r, names, i + 1, Extend(data, names[i], e.val))
readValue(r) ==
  LET tr == decReadType(r)
      t == tr.val IN
    CASE t.kind = "Bool" ->
           LET x == readBool(tr.r) IN [val |-> BoolValue(x.val), r |-> x.r]
      [] t.kind = "Number" ->
           LET x == readFloat64(tr.r) IN [val |-> [k |-> "Number", v |-> x.val], r |-> x.r]
      [] t.kind = "String" ->
           LET x == readString(tr.r) IN [val |-> StringValue(x.val), r |-> x.r]
      [] t.kind = "Ref" ->
           LET h == readHash(tr.r)
               height == readUint64(h.r) IN
             [val |-> constructRef(t, h.val, height.val), r |-> height.r]
      [] t.kind = "List" ->
           LET isMeta == readBool(tr.r)
               n == readUint32(isMeta.r)
               x == IF isMeta.val THEN readMetaTuples(n.r, n.val) ELSE readValues(n.r, n.val) IN
             [val |-> [k |-> "List", type |-> t, meta |-> isMeta.val, v |-> x.val], r |-> x.r]
      [] t.kind = "Struct" ->
           LET x == readFieldValues(tr.r, SortNames(DOMAIN t.fields), 1, EmptyFields) IN
             [val |-> [k |-> "Struct", type |-> t, v |-> x.val], r |-> x.r]
\* dec.readValue() on a TestReader over the encoding; ok when no invariant
\* failed and the whole array was read
decodeValue(c) ==
  LET d == readValue(NewTestReader(c)) IN
    [out |-> d.val, ok |-> d.r.ok /\ atEnd(d.r)]

\* equals(v1, v2): === on primitives, so 0 equals -0; the same value otherwise
equals(v1, v2) ==
  IF v1.k = "Number" /\ v2.k = "Number"
  THEN v1.v.mag = v2.v.mag /\ (v1.v.neg = v2.v.neg \/ v1.v.mag = 0)
  ELSE v1 = v2

(* The values the round-trip tests are run on *)
RECURSIVE cumulative(_, _)
cumulative(leaves, i) == IF i = 0 THEN 0 ELSE cumulative(leaves, i - 1) + Len(leaves[i].v)
Values ==
  LET Bools == {BoolValue(b) : b \in BOOLEAN}
      Numbers == {NumberValue(neg, mag) : neg \in BOOLEAN, mag \in 0..MaxNum}
      Strings == {StringValue(str) : str \in UNION {[1..n -> Alphabet] : n \in 0..MaxStrLen}}
      FieldValues == {BoolValue(TRUE), StringValue(<<"a", "0">>), StringValue(<<>>),
                      NumberValue(TRUE, 0), NumberValue(FALSE, 1)}
      FieldNames == {<<"a">>, <<"A">>}
      Structs ==
        {newStruct(name, data) :
           name \in {<<>>, <<"S">>},
           data \in UNION {[S -> FieldValues] : S \in SUBSET FieldNames}}
      RefValues == {newRef(v) : v \in Numbers}
      ListLeaves ==
        {newListLeaf(items) : items \in UNION {[1..n -> Numbers] : n \in 0..MaxListLen}}
      \* the leaves the meta tuples point at
      ChildLeaves == {l \in ListLeaves : Len(l.v) = 1}
      ListMetas ==
        {newListMeta([i \in 1..Len(leaves) |->
                        MetaTuple(newRef(leaves[i]), cumulative(leaves, i),
                                  cumulative(leaves, i))]) :
           leaves \in UNION {[1..n -> ChildLeaves] : n \in 2..MaxTuples}} IN
    Bools \cup Numbers \cup Strings \cup Structs \cup RefValues \cup ListLeaves \cup ListMetas

(* assertRoundTrips(v) *)
CodecInit ==
  /\ heap = HeapInit
  /\ refCall = NoRefCall
  /\ vs = EmptyStore
  /\ res = NoRes
  /\ patched = {}
  /\ input \in Values
\* const c = encodeValue(v, db)
CEncodeValue ==
  /\ res.op = "none"
  /\ res' = [op |-> "encodeValue", t |-> NilType, u |-> NilType, val |-> encodeValue(input)]
  /\ UNCHANGED <<heap, vs, input, patched, refCall, bsVars>>
\* const out = decodeValue(c, db)
CDecodeValue ==
  /\ res.op = "encodeValue"
  /\ res' = [op |-> "decodeValue", t |-> NilType, u |-> NilType, val |-> decodeValue(res.val)]
  /\ UNCHANGED <<heap, vs, input, patched, refCall, bsVars>>
CodecNext ==
  \/ CEncodeValue
  \/ CDecodeValue

(* The struct encoding tests: newStruct('S', {...}) on an object literal   *)
MaxFields == 2
\* an object literal: its properties as written, each name once
objectLiteral(pairs) ==
  [n \in {pairs[i][1] : i \in 1..Len(pairs)} |->
     pairs[CHOOSE i \in 1..Len(pairs) : pairs[i][1] = n][2]]
StructInit ==
  /\ heap = HeapInit
  /\ refCall = NoRefCall
  /\ vs = EmptyStore
  /\ res = NoRes
  /\ patched = {}
  /\ input \in
       LET names == {<<"b">>, <<"s">>, <<"x">>}
           values == {BoolValue(TRUE), NumberValue(FALSE, 42), StringValue(<<"a">>),
                      newStruct(<<"S", "2">>, objectLiteral(<<<<<<"x">>, NumberValue(FALSE, 42)>>>>))} IN
         UNION {{p \in [1..n -> names \X values] : \A i, j \in 1..n : i # j => p[i][1] # p[j][1]} :
                  n \in 0..MaxFields}
\* encodeValue(newStruct('S', {...}))
SEncodeValue ==
  /\ res.op = "none"
  /\ res' = [op |-> "encodeValue", t |-> NilType, u |-> NilType,
             val |-> encodeValue(newStruct(<<"S">>, objectLiteral(input)))]
  /\ UNCHANGED <<heap, vs, input, patched, refCall, bsVars>>
StructNext ==
  \/ SEncodeValue
  \/ CDecodeValue

(***************************************************************************)
(* Specifications                                                          *)
(***************************************************************************)
vars == <<bsVars, typeVars>>

\* the BatchStore shared by its callers
Init == BSInit /\ TypeInit
Spec == Init /\ [][BSNext]_vars

\* the type system
SpecType == Init /\ [][TypeNext]_vars

\* types built, patched and compared
SpecEq == Init /\ [][EqNext]_vars

\* one Type of any kind
SpecKind == Init /\ [][KindNext]_vars

\* goroutines calling Ref() on shared Types
SpecRef == Init /\ [][RefNext]_vars

\* the round trip of a value through the codec
InitCodec == BSInit /\ CodecInit
SpecCodec == InitCodec /\ [][CodecNext]_vars

\* a struct built from an object literal, encoded and decoded
InitStruct == BSInit /\ StructInit
SpecStruct == InitStruct /\ [][StructNext]_vars

\* MakeStructType on one or two field names
InitName == BSInit /\ NameInit
SpecName == InitName /\ [][NameNext]_vars

(***************************************************************************)
(* Properties of the BatchStore                                            *)
(***************************************************************************)
\* process p completes the call named op in this step
Returns(p, op) == pc[p] = op /\ pc'[p] = "idle"
Persisted(l, c) == c.r \in DOMAIN l.cs.chunks /\ l.cs.chunks[c.r] = c

\* C1: a chunk whose SchedulePut returned is persisted (Get of its hash gives
\* the chunk back, not the empty chunk) in every state after a Flush or a
\* Close that started afterwards has returned.
C1_DurableAfterFlush ==
  \A c \in durableDue :
    /\ Get(lbs, c.r).out = c
    /\ Get(lbs, c.r).out # EmptyChunk
C1_Witness ==
  \E p \in Procs : ret[p].op = "Get" /\ ret[p].val \in durableDue

\* C2: when Flush returns, every chunk whose SchedulePut completed before the
\* Flush started is in the backing store; and whatever the interleaving of
\* the producers, every completed SchedulePut's chunk is stored intact and
\* the store holds nothing else.
C2_FlushSyncPoint ==
  /\ [](/\ \A c \in scheduled : Persisted(lbs, c)
        /\ \A r \in DOMAIN lbs.cs.chunks :
             lbs.cs.chunks[r].r = r /\ lbs.cs.chunks[r] \in Chunks)
  /\ [][\A p \in Procs :
          Returns(p, "Flush") => \A c \in call[p].snap : Persisted(lbs', c)]_vars
C2_Witness ==
  \E p, q \in Procs :
    /\ p # q
    /\ ret[p].op = "Flush"
    /\ ret[q].op = "SchedulePut"
    /\ Cardinality(durableDue) >= 2

\* C3 as stated: a Get, SchedulePut or Flush called after Close has returned
\* neither reads from nor writes to the underlying chunk store.
C3_UnusableAfterClose ==
  [][\A p \in Procs :
       (call[p].afterClose /\ (\E op \in {"Get", "SchedulePut", "Flush"} : Returns(p, op)))
         => lbs'.cs = lbs.cs]_vars
\* C3 amended: once Close has returned the underlying chunk store has been
\* closed, but the adaptor keeps no closed state of its own: a later Flush is
\* still a no-op, and a later Get or SchedulePut is still forwarded to the
\* underlying chunk store.
C3_ForwardsAfterClose ==
  /\ [](closeReturned => (lbs.cs.closed /\ lbs.cs.nClose >= 1))
  /\ [][\A p \in Procs : call[p].afterClose =>
          /\ Returns(p, "Flush") => lbs'.cs = lbs.cs
          /\ Returns(p, "Get") =>
               /\ lbs'.cs.nGet = lbs.cs.nGet + 1
               /\ ret'[p].val = csGet(lbs.cs, call[p].r)
          /\ Returns(p, "SchedulePut") =>
               /\ lbs'.cs.nPut = lbs.cs.nPut + 1
               /\ Persisted(lbs', call[p].c)]_vars
C3_Witness ==
  \E p \in Procs : ret[p].op = "Get" /\ ret[p].afterClose /\ lbs.cs.nGet >= 1

\* C4: Close performs Flush first and closes cs only then, closes cs exactly
\* once per call, and returns exactly what cs.Close() produced.
C4_CloseOnceReturnsErr ==
  [][/\ \A p \in Procs :
          /\ (pc[p] = "Close" /\ pc'[p] # "Close") =>
               (pc'[p] = "CloseCs" /\ call'[p].sub = <<"Flush">> /\ lbs'.cs = lbs.cs)
          /\ Returns(p, "CloseCs") =>
               /\ call[p].sub = <<"Flush">>
               /\ lbs'.cs.nClose = lbs.cs.nClose + 1
               /\ lbs'.cs.closed
               /\ ret'[p].op = "Close"
               /\ ret'[p].val = lbs'.cs.err
     /\ (lbs'.cs.nClose # lbs.cs.nClose) => \E p \in Procs : Returns(p, "CloseCs")]_vars
C4_Witness ==
  \E p \in Procs : ret[p].op = "Close" /\ ret[p].val = "EIO" /\ lbs.cs.nClose = 1

\* C5: SchedulePut is an immediate Put on the underlying store that ignores
\* the hints: whatever hints it is called with the store it leaves is the
\* same, the chunk is present as soon as SchedulePut returns, and Flush
\* changes nothing.
C5_ImmediatePutIgnoresHints ==
  [][\A p \in Procs :
       /\ Returns(p, "SchedulePut") =>
            /\ lbs'.cs.nPut = lbs.cs.nPut + 1
            /\ Persisted(lbs', call[p].c)
            /\ \A h \in Hints : SchedulePut(lbs, call[p].c, h) = lbs'
       /\ Returns(p, "Flush") => lbs' = lbs]_vars
C5_Witness ==
  /\ \E p \in Procs : ret[p].op = "SchedulePut"
  /\ \E p \in Procs : ret[p].op = "Flush"
  /\ durableDue = {}
  /\ lbs.cs.chunks # <<>>

\* C6: Get returns the chunk stored under r in the underlying store, the
\* empty chunk when r is absent, and leaves the stored chunks unchanged.
C6_GetPassThrough ==
  [][\A p \in Procs : Returns(p, "Get") =>
       /\ ret'[p].val = (IF call[p].r \in DOMAIN lbs.cs.chunks
                         THEN lbs.cs.chunks[call[p].r] ELSE EmptyChunk)
       /\ lbs'.cs.chunks = lbs.cs.chunks]_vars
C6_Witness ==
  \E p, q \in Procs :
    /\ ret[p].op = "Get" /\ ret[p].val = EmptyChunk
    /\ ret[q].op = "Get" /\ ret[q].val \in Chunks

(***************************************************************************)
(* Properties of Type                                                      *)
(***************************************************************************)
\* the tokens fn, Cycle, 0 follow each other somewhere in toks
HasSelfCycle(toks, fn) ==
  \E i \in 1..(Len(toks) - 2) :
    toks[i] = Str(fn) /\ toks[i + 1] = U8("Cycle") /\ toks[i + 2] = U32(0)

\* C8: a Type written to the value store and read back by the returned ref is
\* equal to the original (Equals), for the set, map and struct types built
\* and for struct types that refer to themselves; the encoding of a struct
\* type whose field is the struct type itself holds the field as Cycle 0, and
\* the decoded type is again a struct type whose field is that decoded type.
C8_TypeRoundTrip ==
  /\ \A r \in DOMAIN vs : \A t \in UserTypes(heap) :
       WriteValue(heap, vs, t).r = r =>
         LET d == ReadValue(heap, vs, r) IN
           /\ Equals(d.h, t, d.t).res
           /\ d.t # t
           /\ \A fn \in (IF Kind(heap, t) = "Struct" THEN DOMAIN heap[t].Desc.Fields ELSE {}) :
                heap[t].Desc.Fields[fn] = t =>
                  /\ HasSelfCycle(vs[r], fn)
                  /\ Kind(d.h, d.t) = "Struct"
                  /\ d.h[d.t].Desc.Fields[fn] = d.t
  /\ res.op = "ReadValue" =>
       \A t \in UserTypes(heap) :
         WriteValue(heap, vs, t).r = res.val => Equals(heap, t, res.t).res
C8_Witness ==
  /\ res.op = "ReadValue"
  /\ \E t \in patched :
       /\ t # res.t
       /\ heap[t].Desc.Fields[<<"a">>] = t
       /\ WriteValue(heap, vs, t).r = res.val
       /\ Kind(heap, res.t) = "Struct"
       /\ heap[res.t].Desc.Fields[<<"a">>] = res.t

\* C9: t.Equals(u) holds exactly when the Refs of t and u are equal, and is
\* false when u is nil; two Types built by separate constructor calls with
\* the same kind and element types, or the same struct name and fields, are
\* equal; two struct types that differ only in name are not equal.
C9_StructuralEquality ==
  /\ res.op = "Equals" =>
       res.val = (res.u # NilType /\ getRef(heap, res.t) = getRef(heap, res.u))
  /\ \A t \in UserTypes(heap) :
       /\ ~Equals(heap, t, NilType).res
       /\ \A u \in UserTypes(heap) :
            /\ (t # u /\ {t, u} \cap patched = {} /\ heap[t].Desc = heap[u].Desc)
                 => Equals(heap, t, u).res
            /\ (/\ Kind(heap, t) = "Struct" /\ Kind(heap, u) = "Struct"
                /\ heap[t].Desc.Name # heap[u].Desc.Name
                /\ heap[t].Desc.Fields = heap[u].Desc.Fields)
                 => ~Equals(heap, t, u).res

\* the field-name grammar, stated over the characters of the alphabet
C10_Letters == {"A", "a"}
C10_Digits == {"0"}
C10_Matches(n) ==
  /\ Len(n) >= 1
  /\ n[1] \in C10_Letters
  /\ \A i \in 2..Len(n) : n[i] \in C10_Letters \cup C10_Digits \cup {"_"}
C10_InvalidExamples ==
  {<<>>, <<" ">>, <<" ", "a">>, <<"a", " ">>, <<"0">>, <<"_">>, <<"0", "a">>, <<"_", "a">>}
C10_ValidExamples ==
  {<<"a">>, <<"A">>, <<"a", "0">>, <<"a", "_">>, <<"a", "0", "_">>}
C10_Failed ==
  /\ res.val # <<>>
  /\ res.val[1] = "Invalid struct field name"
  /\ res.t = NilType
  /\ heap = HeapInit
C10_Succeeded ==
  /\ res.val = <<>>
  /\ res.t = Len(HeapInit) + 1
  /\ heap = Append(HeapInit, [Desc |-> StructDesc(<<"S">>, [n \in InputNames |-> StringType]),
                              ref |-> EmptyRef])

\* C10: MakeStructType fails with the invalid-field-name error and returns no
\* Type when at least one field name does not match ^[A-Za-z][A-Za-z0-9_]*$,
\* whatever the other names and the order they are visited in, and succeeds
\* when every name matches; the names "", " ", " a", "a ", "0", "_", "0a",
\* "_a" are rejected and "a", "A", "a0", "a_", "a0_" accepted.
C10_InvalidFieldNameFails ==
  /\ \A n \in C10_InvalidExamples : n \in Names /\ ~verifyFieldName(n)
  /\ \A n \in C10_ValidExamples : n \in Names /\ verifyFieldName(n)
  /\ res.op = "MakeStructType" =>
       /\ (\E n \in InputNames : ~C10_Matches(n)) => C10_Failed
       /\ (\A n \in InputNames : C10_Matches(n)) => C10_Succeeded
       /\ (InputNames \cap C10_InvalidExamples # {}) => C10_Failed
       /\ (InputNames \subseteq C10_ValidExamples) => C10_Succeeded
C10_Witness ==
  /\ res.op = "MakeStructType"
  /\ input = <<<<"a">>, <<"a", " ">>>>
  /\ res.val = <<"Invalid struct field name", <<"a", " ">>>>
  /\ res.t = NilType

\* C11: MakeUnionType returns a Union type whose member list holds each
\* distinct member type (by content address) of its arguments exactly once,
\* in ascending order of the members' content addresses, whatever the order
\* and multiplicity of the arguments.
C11_UnionDedupedSorted ==
  res.op = "MakeUnionType" =>
    LET ms == heap[res.t].Desc.ElemTypes IN
      /\ Kind(heap, res.t) = "Union"
      /\ {getRef(heap, ms[i]) : i \in 1..Len(ms)}
           = {getRef(heap, res.val[i]) : i \in 1..Len(res.val)}
      /\ \A i, j \in 1..Len(ms) :
           i < j => /\ getRef(heap, ms[i]) # getRef(heap, ms[j])
                    /\ Less(getRef(heap, ms[i]), getRef(heap, ms[j]))

\* C12: t.IsOrdered() is true exactly when t.Kind() is Number, String or
\* Ref, and false for the Bool, Blob, Value, Type, List, Set, Map, Struct
\* and Union kinds, whatever the element types of a compound type.
C12_IsOrderedByKind ==
  /\ \A t \in 1..Len(heap) :
       /\ IsOrdered(heap, t) <=> Kind(heap, t) \in {"Number", "String", "Ref"}
       /\ Kind(heap, t) \in {"Bool", "Blob", "Value", "Type", "List", "Set", "Map",
                             "Struct", "Union"} => ~IsOrdered(heap, t)
       /\ Kind(heap, t) \in {"Number", "String", "Ref", "Bool", "Blob", "Value", "Type",
                             "List", "Set", "Map", "Struct", "Union"}
  /\ res.op = "IsOrdered" =>
       res.val = (heap[res.t].Desc.kind \in {"Number", "String", "Ref"})
C12_Witness ==
  /\ res.op = "IsOrdered"
  /\ Kind(heap, res.t) = "Ref"
  /\ heap[res.t].Desc.ElemTypes = <<BoolType>>
  /\ res.val

C14_Struct == newStruct(<<"S">>, objectLiteral(input))
C14_Names ==
  CHOOSE o \in Orders(DOMAIN C14_Struct.v) :
    \A i, j \in 1..Len(o) : i < j => StrLess(o[i], o[j])
RECURSIVE C14_Concat(_, _)
C14_Concat(parts, i) == IF i > Len(parts) THEN <<>> ELSE parts[i] \o C14_Concat(parts, i + 1)
\* tag, name, field count, then the (name, type) pairs in ascending order
C14_Head ==
  <<U8("Struct"), Str(<<"S">>), U32(Len(C14_Names))>>
    \o C14_Concat([i \in 1..Len(C14_Names) |->
                     <<Str(C14_Names[i])>> \o encWriteType(<<>>, getTypeOfValue(C14_Struct.v[C14_Names[i]]))], 1)
\* what follows the type in the encoding of a value
C14_Payload(v) ==
  SubSeq(encodeValue(v), Len(encWriteType(<<>>, getTypeOfValue(v))) + 1, Len(encodeValue(v)))
\* the inputs of the tests 'struct' and 'struct with struct'
C14_TestStruct == <<<<<<"x">>, NumberValue(FALSE, 42)>>, <<<<"b">>, BoolValue(TRUE)>>>>
C14_TestNested ==
  <<<<<<"s">>, newStruct(<<"S", "2">>, objectLiteral(<<<<<<"x">>, NumberValue(FALSE, 42)>>>>))>>>>

C7_RoundTrip ==
  /\ {NumberValue(FALSE, 0), NumberValue(TRUE, 0), StringValue(<<>>)} \subseteq Values
  /\ res.op = "decodeValue" => (res.val.ok /\ equals(input, res.val.out))
C7_Witness ==
  /\ res.op = "decodeValue"
  /\ input.k = "List"
  /\ input.meta
  /\ Len(input.v) >= 2
  /\ input.v[2].ref.hash = getHash(newListLeaf(<<NumberValue(TRUE, 1)>>))
  /\ res.val.out = input

====
